---- MODULE Spec2Model ----
(***************************************************************************)
(* A model of the stream-more crate: the k-way merge engine KMerge (a max  *)
(* binary heap of HeapEntry ordered by HeapEntryCmp) and the Coalesce      *)
(* adapter.  One action per public operation: KMerge::merge,               *)
(* KMerge::poll_next, Coalesce::poll_next.  Producers are the environment: *)
(* a producer answers NotReady, Some(item) or None to each poll.           *)
(***************************************************************************)
EXTENDS Integers, Sequences, FiniteSets

VARIABLES
    cmp,        \* KMerge: the user comparator C handed to by_cmp
    curr_id,    \* KMerge.curr_id
    heap,       \* KMerge.heap: the vector of the binary heap, root first
    streams,    \* the producers attached so far, by id (HeapEntry.stream)
    out,        \* history: the items poll_next has returned, with their producer
    last,       \* history: the last poll_next call: what it returned, the heap it
                \* inspected at the return, the producers it polled, the number of
                \* producers attached then
    attached,   \* history: for each producer, the situation when it was attached
    first_end,  \* history: Len(out) when poll_next first returned End
    co_f,       \* Coalesce.f: the combine function
    co_prev,    \* Coalesce.prev
    co_finished,\* Coalesce.finished
    co_inner,   \* Coalesce.inner: the producer
    co_out,     \* history: the items Coalesce::poll_next has returned
    co_last,    \* history: what the last Coalesce::poll_next call returned
    co_hist     \* history: prev and co_out when inner first reported None (at_none),
                \* co_out when poll_next first returned End (at_end)

kvars == <<cmp, curr_id, heap, streams, out, last, attached, first_end>>
covars == <<co_f, co_prev, co_finished, co_inner, co_out, co_last, co_hist>>
vars == <<cmp, curr_id, heap, streams, out, last, attached, first_end,
          co_f, co_prev, co_finished, co_inner, co_out, co_last, co_hist>>

----------------------------------------------------------------------------
(* Bounds of the model *)

\* producers attached to one merge engine
MaxStreams == 3
\* items one merge producer holds
MaxLen == 2
\* merge items are 1..MaxItem
MaxItem == 2
\* items the coalesce producer holds
CoMaxLen == 3
\* coalesce items are -CoMaxItem..CoMaxItem
CoMaxItem == 1
\* polls a producer answers after it has reported None
MaxRepolls == 2
\* the producers of the runs whose termination is checked
FairMaxStreams == 2

Items == 1..MaxItem
SeqsUpTo(S, n) == UNION {[1..k -> S] : k \in 0..n}

----------------------------------------------------------------------------
(* Option<T> and Peeked<D>: the empty tuple is None / Peeked::No, a        *)
(* one-element tuple is Some(v) / Peeked::Yes(v)                           *)

None == <<>>
Some(v) == <<v>>

\* a has_peeked that finds every cell empty
has_peeked_never(p) == FALSE

No == <<>>
Yes(v) == <<v>>

has_peeked(p) == p # No

\* a take that hands out the value and leaves it in the cell
take_keep(p) == [taken |-> p, cell |-> p]

\* Peeked::take: the value taken and the cell reset to No
take(p) == [taken |-> p, cell |-> No]

\* From<Peeked<D>> for Option<D>
peeked_into_option(p) == IF p = No THEN None ELSE Some(p[1])

----------------------------------------------------------------------------
(* Comparators *)

\* Ord::cmp on integers
int_cmp(l, r) == IF l < r THEN "Less" ELSE IF l > r THEN "Greater" ELSE "Equal"

Descending_compare(l, r) == int_cmp(l, r)

Ascending_compare(l, r) == int_cmp(r, l)

\* the closure of KMerge::by(|a, b| a < b)
first_lt(a, b) == a < b

\* self.0(l, r) of FnCmp: the call of the closure named first
call_first(first, a, b) == CASE first = "lt" -> first_lt(a, b)

\* FnCmp with the two answers of the closure exchanged
FnCmp_compare_inverted(first, l, r) == IF call_first(first, l, r) THEN "Less" ELSE "Greater"

\* FnCmp as Compare<D>: Greater when first(l, r), Less otherwise
FnCmp_compare(first, l, r) == IF call_first(first, l, r) THEN "Greater" ELSE "Less"

Comparators == {"Descending", "Ascending", "FnLt"}

\* Compare::compare of the comparator named c
compare(c, l, r) ==
    CASE c = "Descending" -> Descending_compare(l, r)
      [] c = "Ascending" -> Ascending_compare(l, r)
      [] c = "FnLt" -> FnCmp_compare("lt", l, r)

\* HeapEntryCmp with the rank of an empty cell inverted
HeapEntryCmp_compare_peeked_inverted(c, l, r) ==
    CASE l = No /\ r = No -> "Equal"
      [] l = No /\ r # No -> "Less"
      [] l # No /\ r = No -> "Greater"
      [] l # No /\ r # No -> compare(c, l[1], r[1])

\* HeapEntryCmp that hands two values to the user comparator in the wrong order
HeapEntryCmp_compare_peeked_swapped(c, l, r) ==
    CASE l = No /\ r = No -> "Equal"
      [] l = No /\ r # No -> "Greater"
      [] l # No /\ r = No -> "Less"
      [] l # No /\ r # No -> compare(c, r[1], l[1])

\* HeapEntryCmp as Compare<Peeked<D>>
HeapEntryCmp_compare_peeked(c, l, r) ==
    CASE l = No /\ r = No -> "Equal"
      [] l = No /\ r # No -> "Greater"
      [] l # No /\ r = No -> "Less"
      [] l # No /\ r # No -> compare(c, l[1], r[1])

\* HeapEntryCmp on entries that looks at the cells being full and not at the values
HeapEntryCmp_compare_cells(c, l, r) ==
    CASE l.peeked = No /\ r.peeked = No -> "Equal"
      [] l.peeked = No /\ r.peeked # No -> "Greater"
      [] l.peeked # No /\ r.peeked = No -> "Less"
      [] l.peeked # No /\ r.peeked # No -> "Equal"

\* HeapEntryCmp on entries that ranks equal cells by the identifier, the
\* earlier producer first
HeapEntryCmp_compare_id(c, l, r) ==
    IF HeapEntryCmp_compare_peeked(c, l.peeked, r.peeked) = "Equal"
    THEN int_cmp(r.id, l.id)
    ELSE HeapEntryCmp_compare_peeked(c, l.peeked, r.peeked)

\* HeapEntryCmp as Compare<HeapEntry<D>>
HeapEntryCmp_compare(c, l, r) == HeapEntryCmp_compare_peeked(c, l.peeked, r.peeked)

----------------------------------------------------------------------------
(* HeapEntry and the binary heap.  Positions are 0-based as in the vector; *)
(* d[p + 1] is the element at position p.                                  *)

\* HeapEntry::new(stream).with_id(id); the stream itself lives in streams[id]
HeapEntry_new(id) == [peeked |-> No, id |-> id]

swap(d, i, j) == [d EXCEPT ![i + 1] = d[j + 1], ![j + 1] = d[i + 1]]

RECURSIVE sift_up(_, _, _, _)
\* BinaryHeap::sift_up(start, pos): the vector and the final position
sift_up(c, d, start, pos) ==
    IF pos > start
    THEN LET parent == (pos - 1) \div 2 IN
         IF HeapEntryCmp_compare(c, d[pos + 1], d[parent + 1]) # "Greater"
         THEN d
         ELSE sift_up(c, swap(d, pos, parent), start, parent)
    ELSE d

\* the child sift_down descends to: the greater one, the right one on a tie
greater_child(c, d, pos, end) ==
    LET child == 2 * pos + 1
        right == child + 1
    IN IF right < end /\ HeapEntryCmp_compare(c, d[child + 1], d[right + 1]) # "Greater"
       THEN right
       ELSE child

RECURSIVE sift_down_range(_, _, _, _)
\* BinaryHeap::sift_down_range(pos, end)
sift_down_range(c, d, pos, end) ==
    IF 2 * pos + 1 < end
    THEN LET child == greater_child(c, d, pos, end) IN
         IF HeapEntryCmp_compare(c, d[pos + 1], d[child + 1]) # "Less"
         THEN d
         ELSE sift_down_range(c, swap(d, pos, child), child, end)
    ELSE d

\* BinaryHeap::sift_down(pos)
sift_down(c, d, pos) == sift_down_range(c, d, pos, Len(d))

RECURSIVE to_bottom(_, _, _)
\* first loop of BinaryHeap::sift_down_to_bottom: the vector and the hole's position
to_bottom(c, d, pos) ==
    IF 2 * pos + 1 < Len(d)
    THEN LET child == greater_child(c, d, pos, Len(d)) IN
         to_bottom(c, swap(d, pos, child), child)
    ELSE <<d, pos>>

\* BinaryHeap::sift_down_to_bottom(pos)
sift_down_to_bottom(c, d, pos) ==
    LET b == to_bottom(c, d, pos) IN sift_up(c, b[1], pos, b[2])

\* BinaryHeap::push
push(c, d, item) == sift_up(c, Append(d, item), 0, Len(d))

\* BinaryHeap::pop, the vector left (d is not empty)
pop(c, d) ==
    LET item == d[Len(d)]
        rest == SubSeq(d, 1, Len(d) - 1)
    IN IF rest = <<>>
       THEN rest
       ELSE sift_down_to_bottom(c, [rest EXCEPT ![1] = item], 0)

\* BinaryHeap::peek_mut: None on an empty heap, else a handle on the root
peek_mut(d) == IF Len(d) = 0 THEN None ELSE Some(d[1])

\* a PeekMut that does not restore the heap order when it is dropped
PeekMut_drop_nosift(c, d) == d

\* Drop for PeekMut: the root may have changed, sift it down
PeekMut_drop(c, d) == sift_down(c, d, 0)

\* a pop that removes the last element of the vector instead of the root
PeekMut_pop_last(c, d) == SubSeq(d, 1, Len(d) - 1)

\* PeekMut::pop
PeekMut_pop(c, d) == pop(c, d)

----------------------------------------------------------------------------
(* Producers.  A producer holds its items and how many it has handed out;  *)
(* ended says it has answered None, repolls counts its polls after that.    *)

Stream_new(items) == [items |-> items, pos |-> 0, ended |-> FALSE, repolls |-> 0]

\* what the producer answers when it is ready; past is what it answers when
\* it is polled after it has reported None
Stream_answer(s, past) ==
    IF s.ended THEN past
    ELSE IF s.pos < Len(s.items) THEN Some(s.items[s.pos + 1])
    ELSE None

\* the producer after that answer
Stream_advance(s) ==
    IF s.ended THEN [s EXCEPT !.repolls = s.repolls + 1]
    ELSE IF s.pos < Len(s.items) THEN [s EXCEPT !.pos = s.pos + 1]
    ELSE [s EXCEPT !.ended = TRUE]

----------------------------------------------------------------------------
(* KMerge *)

\* KMerge::merge: the heap after the push
merge_heap(c, h, id) == push(c, h, HeapEntry_new(id))

\* poll_next, heap empty: return Poll::Ready(None)
arm_empty(h) == [ctl |-> "return", ret |-> <<"End">>, heap |-> h]

\* a poll_next that removes the entry whose value it returns
arm_peeked_pop(c, h) ==
    LET t == take(h[1].peeked) IN
    [ctl |-> "return",
     ret |-> <<"Item", peeked_into_option(t.taken)[1], h[1].id>>,
     heap |-> PeekMut_pop(c, [h EXCEPT ![1].peeked = t.cell])]

\* a poll_next that moves the entry whose value it returns to the back of the heap
arm_peeked_back(c, h) ==
    LET t == take(h[1].peeked) IN
    [ctl |-> "return",
     ret |-> <<"Item", peeked_into_option(t.taken)[1], h[1].id>>,
     heap |-> Append(Tail(h), [h[1] EXCEPT !.peeked = t.cell])]

\* poll_next, root holds a value: return Poll::Ready(peek_mut.peeked.take())
arm_peeked(c, h) ==
    LET t == take(h[1].peeked) IN
    [ctl |-> "return",
     ret |-> <<"Item", peeked_into_option(t.taken)[1], h[1].id>>,
     heap |-> PeekMut_drop(c, [h EXCEPT ![1].peeked = t.cell])]

\* a poll_next that drops the producer that is not ready
arm_pending_pop(c, h) == [ctl |-> "return", ret |-> <<"Pending">>, heap |-> PeekMut_pop(c, h)]

\* a poll_next that moves the producer that is not ready to the back of the heap
arm_pending_requeue(c, h) ==
    [ctl |-> "return", ret |-> <<"Pending">>, heap |-> push(c, PeekMut_pop(c, h), h[1])]

\* a poll_next that takes a producer that is not ready for the end of the run
arm_pending_end(c, h) == [ctl |-> "return", ret |-> <<"End">>, heap |-> PeekMut_drop(c, h)]

\* poll_next, ready!() on a producer that is not ready: return Poll::Pending
arm_pending(c, h) == [ctl |-> "return", ret |-> <<"Pending">>, heap |-> PeekMut_drop(c, h)]

\* the fill without the re-rank of the root
arm_some_nosift(c, h, t) ==
    [ctl |-> "continue", ret |-> <<>>, heap |-> [h EXCEPT ![1].peeked = Yes(t)]]

\* poll_next, the producer gave Some(t): peek_mut.peeked = Peeked::Yes(t), loop
arm_some(c, h, t) ==
    [ctl |-> "continue", ret |-> <<>>,
     heap |-> PeekMut_drop(c, [h EXCEPT ![1].peeked = Yes(t)])]

\* a poll_next that reports End as soon as one producer ends
arm_none_end(c, h) == [ctl |-> "return", ret |-> <<"End">>, heap |-> PeekMut_pop(c, h)]

\* a poll_next that leaves a producer that has ended in the heap
arm_none_keep(c, h) == [ctl |-> "continue", ret |-> <<>>, heap |-> PeekMut_drop(c, h)]

\* poll_next, the producer gave None: PeekMut::pop(peek_mut), loop
arm_none(c, h) == [ctl |-> "continue", ret |-> <<>>, heap |-> PeekMut_pop(c, h)]

RECURSIVE poll_next(_, _, _, _, _, _)
\* KMerge::poll_next.  n is the number of producer polls of this call that
\* are answered before one answers NotReady; polled lists the producers
\* polled so far in this call.  The result: what is returned (ret), the heap
\* and producers left, the heap as it was inspected at the return (seen),
\* and the positions in polled of the polls answered NotReady (notready).
poll_next(c, h, ss, n, past, polled) ==
    IF peek_mut(h) = None
    THEN [ret |-> arm_empty(h).ret, heap |-> arm_empty(h).heap, streams |-> ss,
          seen |-> h, polled |-> polled, notready |-> <<>>]
    ELSE LET top == peek_mut(h)[1] IN
         IF has_peeked(top.peeked)
         THEN LET a == arm_peeked(c, h) IN
              [ret |-> a.ret, heap |-> a.heap, streams |-> ss,
               seen |-> h, polled |-> polled, notready |-> <<>>]
         ELSE IF n = 0
         THEN LET a == arm_pending(c, h) IN
              [ret |-> a.ret, heap |-> a.heap, streams |-> ss,
               seen |-> h, polled |-> Append(polled, top.id),
               notready |-> <<Len(polled) + 1>>]
         ELSE LET next == Stream_answer(ss[top.id], past)
                  ss2 == [ss EXCEPT ![top.id] = Stream_advance(ss[top.id])]
                  a == IF next # None THEN arm_some(c, h, next[1]) ELSE arm_none(c, h)
              IN IF a.ctl = "return"
                 THEN [ret |-> a.ret, heap |-> a.heap, streams |-> ss2,
                       seen |-> h, polled |-> Append(polled, top.id),
                       notready |-> <<>>]
                 ELSE poll_next(c, a.heap, ss2, n - 1, past, Append(polled, top.id))

----------------------------------------------------------------------------
(* The merge engine as a state machine *)

NoCall ==
    [ret |-> <<"None">>, seen |-> <<>>, polled |-> <<>>, notready |-> <<>>, attached |-> 0]

\* what a producer may answer when it is polled after its None
PastAnswers == {None, Some(MaxItem)}

\* KMerge::by_cmp(cmp), and nothing polled yet
KInit ==
    /\ cmp \in Comparators
    /\ curr_id = 0
    /\ heap = <<>>
    /\ streams = <<>>
    /\ out = <<>>
    /\ last = NoCall
    /\ attached = <<>>
    /\ first_end = None

\* KMerge::merge(stream)
Merge(items) ==
    /\ curr_id < MaxStreams
    /\ curr_id' = curr_id + 1
    /\ heap' = merge_heap(cmp, heap, curr_id + 1)
    /\ streams' = Append(streams, Stream_new(items))
    /\ attached' = Append(attached, [started |-> last # NoCall,
                                     out |-> out,
                                     after_end |-> first_end # None])
    /\ UNCHANGED <<cmp, out, last, first_end>>

\* one call of KMerge::poll_next
Advance(n, past) ==
    \E r \in {poll_next(cmp, heap, streams, n, past, <<>>)} :
    /\ \A id \in DOMAIN r.streams : r.streams[id].repolls <= MaxRepolls
    /\ heap' = r.heap
    /\ streams' = r.streams
    /\ out' = IF r.ret[1] = "Item" THEN Append(out, [v |-> r.ret[2], id |-> r.ret[3]]) ELSE out
    /\ last' = [ret |-> r.ret, seen |-> r.seen, polled |-> r.polled,
                notready |-> r.notready, attached |-> curr_id]
    /\ first_end' = IF r.ret[1] = "End" /\ first_end = None THEN Some(Len(out)) ELSE first_end
    /\ UNCHANGED <<cmp, curr_id, attached>>

----------------------------------------------------------------------------
(* Coalesce *)

CoItems == (0 - CoMaxItem)..CoMaxItem

\* the closure of the doc example of StreamMore::coalesce: sum same-sign runs
f_same_sign(x, y) == IF x * y >= 0 THEN <<"Ok", x + y>> ELSE <<"Err", x, y>>

\* the closure of test_coalesce_pending: |x, y| Ok(x + y)
f_sum(x, y) == <<"Ok", x + y>>

\* a closure that never merges: |x, y| Err((x, y))
f_never(x, y) == <<"Err", x, y>>

\* a closure that rejects with the pair swapped: |x, y| Err((y, x))
f_swap(x, y) == <<"Err", y, x>>

Combiners == {"same_sign", "sum", "never", "swap"}

\* (this.f)(p, c)
call_f(f, p, c) ==
    CASE f = "same_sign" -> f_same_sign(p, c)
      [] f = "sum" -> f_sum(p, c)
      [] f = "never" -> f_never(p, c)
      [] f = "swap" -> f_swap(p, c)

\* Coalesce::new(stream, f)
Coalesce_new(items, f) == [prev |-> None, finished |-> FALSE, inner |-> Stream_new(items), f |-> f]

\* Each step of the loop of poll_next gives what the loop does next (ctl),
\* what it returns (ret), this.prev and this.finished after it, and the
\* argument pairs it passed to this.f (calls).

\* a poll_next that takes this.prev before it asks the producer
co_arm_pending_taken(prev, finished) ==
    [ctl |-> "return", ret |-> <<"Pending">>, prev |-> None, finished |-> finished,
     calls |-> <<>>]

\* ready!() on a producer that is not ready: return Poll::Pending, before
\* this.prev.take()
co_arm_pending(prev, finished) ==
    [ctl |-> "return", ret |-> <<"Pending">>, prev |-> prev, finished |-> finished,
     calls |-> <<>>]

\* match arm (None, None): return Poll::Ready(None)
co_arm_none_none(finished) ==
    [ctl |-> "return", ret |-> <<"End">>, prev |-> None, finished |-> finished,
     calls |-> <<>>]

\* the arm (Some(p), None) without the assignment to finished
co_arm_some_none_unfinished(p, finished) ==
    [ctl |-> "return", ret |-> <<"Item", p>>, prev |-> None, finished |-> finished,
     calls |-> <<>>]

\* the arm (Some(p), None) that reports the end and forgets the pending item
co_arm_some_none_drop(p, finished) ==
    [ctl |-> "return", ret |-> <<"End">>, prev |-> None, finished |-> TRUE,
     calls |-> <<>>]

\* match arm (Some(p), None): *this.finished = true; return Poll::Ready(Some(p))
co_arm_some_none(p, finished) ==
    [ctl |-> "return", ret |-> <<"Item", p>>, prev |-> None, finished |-> TRUE,
     calls |-> <<>>]

\* match arm (None, Some(c)): *this.prev = Some(c)
co_arm_none_some(c, finished) ==
    [ctl |-> "continue", ret |-> <<>>, prev |-> Some(c), finished |-> finished,
     calls |-> <<>>]

\* the arm (Some(p), Some(c)) with the two parts of a rejection mixed up
co_arm_some_some_mixed(f, p, c, finished) ==
    LET res == call_f(f, p, c) IN
    IF res[1] = "Ok"
    THEN [ctl |-> "continue", ret |-> <<>>, prev |-> Some(res[2]), finished |-> finished,
          calls |-> <<<<p, c>>>>]
    ELSE [ctl |-> "return", ret |-> <<"Item", res[3]>>, prev |-> Some(res[2]),
          finished |-> finished, calls |-> <<<<p, c>>>>]

\* the arm (Some(p), Some(c)) that, on a rejection, emits p and keeps c
\* whatever pair f hands back
co_arm_some_some_args(f, p, c, finished) ==
    LET res == call_f(f, p, c) IN
    IF res[1] = "Ok"
    THEN [ctl |-> "continue", ret |-> <<>>, prev |-> Some(res[2]), finished |-> finished,
          calls |-> <<<<p, c>>>>]
    ELSE [ctl |-> "return", ret |-> <<"Item", p>>, prev |-> Some(c),
          finished |-> finished, calls |-> <<<<p, c>>>>]

\* match arm (Some(p), Some(c)): call f, keep Ok(x) or emit the rejected pair's first
co_arm_some_some(f, p, c, finished) ==
    LET res == call_f(f, p, c) IN
    IF res[1] = "Ok"
    THEN [ctl |-> "continue", ret |-> <<>>, prev |-> Some(res[2]), finished |-> finished,
          calls |-> <<<<p, c>>>>]
    ELSE [ctl |-> "return", ret |-> <<"Item", res[2]>>, prev |-> Some(res[3]),
          finished |-> finished, calls |-> <<<<p, c>>>>]

\* the match on (prev, current), prev being this.prev.take()
co_match(f, prev, current, finished) ==
    CASE prev = None /\ current = None -> co_arm_none_none(finished)
      [] prev # None /\ current = None -> co_arm_some_none(prev[1], finished)
      [] prev = None /\ current # None -> co_arm_none_some(current[1], finished)
      [] prev # None /\ current # None -> co_arm_some_some(f, prev[1], current[1], finished)

RECURSIVE co_loop(_, _, _, _, _, _, _)
\* the loop of Coalesce::poll_next; polls counts the producer polls of this
\* call, at_none is prev as it was when the producer reported its first None,
\* notready the polls answered NotReady, fcalls the pairs passed to this.f
co_loop(f, prev, finished, inner, n, past, polls) ==
    IF n = 0
    THEN LET a == co_arm_pending(prev, finished) IN
         [ret |-> a.ret, prev |-> a.prev, finished |-> a.finished, inner |-> inner,
          polls |-> polls + 1, at_none |-> None, notready |-> <<polls + 1>>,
          fcalls |-> a.calls]
    ELSE LET current == Stream_answer(inner, past)
             inner2 == Stream_advance(inner)
             a == co_match(f, prev, current, finished)
         IN IF a.ctl = "return"
            THEN [ret |-> a.ret, prev |-> a.prev, finished |-> a.finished,
                  inner |-> inner2, polls |-> polls + 1,
                  at_none |-> IF current = None /\ ~inner.ended THEN Some(prev) ELSE None,
                  notready |-> <<>>, fcalls |-> a.calls]
            ELSE LET r == co_loop(f, a.prev, a.finished, inner2, n - 1, past, polls + 1)
                 IN [r EXCEPT !.fcalls = a.calls \o r.fcalls]

\* Coalesce::poll_next
co_poll_next(f, prev, finished, inner, n, past) ==
    IF finished
    THEN [ret |-> <<"End">>, prev |-> prev, finished |-> finished, inner |-> inner,
          polls |-> 0, at_none |-> None, notready |-> <<>>, fcalls |-> <<>>]
    ELSE co_loop(f, prev, finished, inner, n, past, 0)

----------------------------------------------------------------------------
(* The coalesce engine as a state machine *)

CoNoCall == [ret |-> <<"None">>, polls |-> 0, notready |-> <<>>, fcalls |-> <<>>]

\* at_none: prev and the output at the producer's first None; at_end: the
\* output at the first End; combines: the calls of this.f so far; revived:
\* the producer has answered an item after its None
CoNoHist == [at_none |-> None, at_end |-> None, combines |-> 0, revived |-> FALSE]

\* what a coalesce producer may answer when it is polled after its None
CoPastAnswers == {None, Some(CoMaxItem)}

CoInit ==
    /\ co_f \in Combiners
    /\ \E items \in SeqsUpTo(CoItems, CoMaxLen) :
          /\ co_prev = Coalesce_new(items, co_f).prev
          /\ co_finished = Coalesce_new(items, co_f).finished
          /\ co_inner = Coalesce_new(items, co_f).inner
    /\ co_out = <<>>
    /\ co_last = CoNoCall
    /\ co_hist = CoNoHist

\* one call of Coalesce::poll_next
CoAdvance(n, past) ==
    \E r \in {co_poll_next(co_f, co_prev, co_finished, co_inner, n, past)} :
    /\ r.inner.repolls <= MaxRepolls
    /\ co_prev' = r.prev
    /\ co_finished' = r.finished
    /\ co_inner' = r.inner
    /\ co_out' = IF r.ret[1] = "Item" THEN Append(co_out, r.ret[2]) ELSE co_out
    /\ co_last' = [ret |-> r.ret, polls |-> r.polls, notready |-> r.notready,
                   fcalls |-> r.fcalls]
    /\ co_hist' = [at_none |-> IF co_hist.at_none = None /\ r.at_none # None
                                THEN Some([prev |-> r.at_none[1], out |-> co_out])
                                ELSE co_hist.at_none,
                    at_end |-> IF co_hist.at_end = None /\ r.ret[1] = "End"
                               THEN Some(co_out)
                               ELSE co_hist.at_end,
                    combines |-> co_hist.combines + Len(r.fcalls),
                    revived |-> \/ co_hist.revived
                                \/ r.inner.repolls > co_inner.repolls /\ past # None]
    /\ UNCHANGED co_f

----------------------------------------------------------------------------
(* Specifications: the merge engine (Spec), the coalesce engine (CoSpec) *)

CoIdle ==
    /\ co_f = "sum"
    /\ co_prev = None
    /\ co_finished = FALSE
    /\ co_inner = Stream_new(<<>>)
    /\ co_out = <<>>
    /\ co_last = CoNoCall
    /\ co_hist = CoNoHist

KIdle ==
    /\ cmp = "Descending"
    /\ curr_id = 0
    /\ heap = <<>>
    /\ streams = <<>>
    /\ out = <<>>
    /\ last = NoCall
    /\ attached = <<>>
    /\ first_end = None

Init == KInit /\ CoIdle

Next ==
    \/ \E items \in SeqsUpTo(Items, MaxLen) : Merge(items) /\ UNCHANGED covars
    \/ \E n \in 0..MaxStreams, past \in PastAnswers : Advance(n, past) /\ UNCHANGED covars

Spec == Init /\ [][Next]_vars

CoInitAll == CoInit /\ KIdle

CoNext == \E n \in 0..(CoMaxLen + 1), past \in CoPastAnswers : CoAdvance(n, past) /\ UNCHANGED kvars

CoSpec == CoInitAll /\ [][CoNext]_vars

\* a call of KMerge::poll_next whose first producer poll, if it makes one, is
\* answered
Progress ==
    \E n \in 1..MaxStreams, past \in PastAnswers : Advance(n, past) /\ UNCHANGED covars

\* the calls on a merge engine that gets FairMaxStreams producers at most
FairNext ==
    \/ /\ curr_id < FairMaxStreams
       /\ \E items \in SeqsUpTo(Items, MaxLen) : Merge(items) /\ UNCHANGED covars
    \/ \E n \in 0..MaxStreams, past \in PastAnswers : Advance(n, past) /\ UNCHANGED covars

\* the merge engine polled again and again, over producers none of which
\* answers NotReady for ever
FairSpec == Init /\ [][FairNext]_vars /\ WF_vars(Progress)

\* a program that builds one of the two engines and drives it: an engine is
\* driven only while the other one is as it was built
EitherInit == Init \/ CoInitAll

EitherNext ==
    \/ CoIdle /\ Next
    \/ KIdle /\ CoNext

EitherSpec == EitherInit /\ [][EitherNext]_vars

----------------------------------------------------------------------------
(* Vocabulary of the properties *)

\* c is a total preorder on the items: compare is antisymmetric in its sign
\* and transitive
IsTotalPreorder(c) ==
    /\ \A a, b \in Items :
          /\ (compare(c, a, b) = "Greater") <=> (compare(c, b, a) = "Less")
          /\ (compare(c, a, b) = "Equal") <=> (compare(c, b, a) = "Equal")
    /\ \A a, b, d \in Items :
          (compare(c, a, b) # "Less" /\ compare(c, b, d) # "Less") => compare(c, a, d) # "Less"

\* no item of s is followed by one that c ranks strictly before it
SortedBy(c, s) ==
    \A i, j \in DOMAIN s : i < j => compare(c, s[j], s[i]) # "Greater"

Count(s, v) == Cardinality({i \in DOMAIN s : s[i] = v})

OutVals == [i \in DOMAIN out |-> out[i].v]

\* how often v occurs in the contents of all attached producers
RECURSIVE CountIn(_, _)
CountIn(k, v) == IF k = 0 THEN 0 ELSE CountIn(k - 1, v) + Count(streams[k].items, v)

\* the last call returned End and no producer has been attached since
Ended == last.ret[1] = "End" /\ last.attached = curr_id

AllAttachedBeforeStart == \A id \in DOMAIN attached : ~attached[id].started

AllSorted == \A id \in DOMAIN streams : SortedBy(cmp, streams[id].items)

----------------------------------------------------------------------------
(* C1: sorted inputs give a sorted permutation *)

\* C1: when every producer was attached before the first poll_next, every
\* producer is sorted under a comparator that is a total preorder, and
\* poll_next has returned End, the items returned are sorted under the
\* comparator and are a permutation of all the producers' items.
C1_SortedMerge ==
    (Ended /\ AllAttachedBeforeStart /\ IsTotalPreorder(cmp) /\ AllSorted)
        => /\ SortedBy(cmp, OutVals)
           /\ \A v \in Items : Count(OutVals, v) = CountIn(curr_id, v)

\* three sorted producers, two of them with two distinct items, merged to the end
C1_Witness ==
    /\ Ended /\ AllAttachedBeforeStart /\ IsTotalPreorder(cmp) /\ AllSorted
    /\ curr_id = 3
    /\ Len(out) >= 5
    /\ \E a, b \in DOMAIN streams :
          a # b /\ streams[a].items = streams[b].items /\ Len(streams[a].items) = 2
                /\ streams[a].items[1] # streams[a].items[2]

----------------------------------------------------------------------------
(* C2: the item returned is a maximum of the buffered heads *)

\* the last call returned an item
Returned == last.ret[1] = "Item"

\* C2: whenever poll_next returns an item under a comparator that is a
\* total preorder, sorted inputs or not, no entry of the heap inspected at
\* that return holds a value that the comparator ranks Greater than the item.
C2_GreedyMax ==
    (Returned /\ IsTotalPreorder(cmp))
        => \A i \in DOMAIN last.seen :
              has_peeked(last.seen[i].peeked)
                  => compare(cmp, last.seen[i].peeked[1], last.ret[2]) # "Greater"

\* an item returned over two other buffered heads it strictly outranks, from
\* a producer that is not sorted
C2_Witness ==
    /\ Returned /\ IsTotalPreorder(cmp)
    /\ Len(last.seen) = 3
    /\ \A i \in 2..3 :
          /\ has_peeked(last.seen[i].peeked)
          /\ compare(cmp, last.ret[2], last.seen[i].peeked[1]) = "Greater"
    /\ ~SortedBy(cmp, streams[last.ret[3]].items)

----------------------------------------------------------------------------
(* C3: every producer is primed before an item is returned *)

\* the producers that were attached when the last call was made
AttachedAtLastItem == 1..last.attached

\* C3: whenever poll_next returns an item, no entry of the heap inspected at
\* that return has an empty cell, and every producer attached by then that
\* has not reported None has an entry in it.
C3_PrimedBeforeEmit ==
    Returned
        => /\ \A i \in DOMAIN last.seen : has_peeked(last.seen[i].peeked)
           /\ \A id \in AttachedAtLastItem :
                 ~streams[id].ended => \E i \in DOMAIN last.seen : last.seen[i].id = id

\* an item returned by a call that met a producer attached after polling
\* had started and primed it, with three entries in the heap
C3_Witness ==
    /\ Returned
    /\ Len(last.seen) = 3
    /\ \E id \in DOMAIN attached :
          /\ attached[id].started
          /\ attached[id].out = SubSeq(out, 1, Len(out) - 1)
          /\ \E k \in DOMAIN last.polled : last.polled[k] = id

----------------------------------------------------------------------------
(* C4: a producer attached after polling started *)

\* the items returned before the last producer was attached
BeforeLastAttach == attached[curr_id].out

AfterLastAttach == SubSeq(OutVals, Len(BeforeLastAttach) + 1, Len(out))

\* C4: when the last producer was attached after some items had been
\* returned, all producers are sorted under a total preorder and poll_next
\* has returned End, the items returned before the attach are still the
\* first items returned, and the items returned after it are sorted and are
\* exactly the items of all producers that had not been returned before.
C4_AttachAfterPolling ==
    (Ended /\ curr_id > 0 /\ IsTotalPreorder(cmp) /\ AllSorted)
        => (Len(BeforeLastAttach) > 0
              => /\ SubSeq(out, 1, Len(BeforeLastAttach)) = BeforeLastAttach
                 /\ SortedBy(cmp, AfterLastAttach)
                 /\ \A v \in Items : Count(OutVals, v) = CountIn(curr_id, v))

\* the third producer was attached after two items had been returned, before
\* End, and its first item ranks strictly before the last item returned
\* before the attach
C4_Witness ==
    /\ Ended /\ curr_id = 3 /\ IsTotalPreorder(cmp) /\ AllSorted
    /\ Len(BeforeLastAttach) = 2
    /\ ~attached[3].after_end
    /\ Len(streams[3].items) = 2
    /\ compare(cmp, streams[3].items[1], BeforeLastAttach[2].v) = "Greater"
    /\ Len(out) = 6

----------------------------------------------------------------------------
(* C5: a merge producer is not polled after its None *)

HeapIds == {heap[i].id : i \in DOMAIN heap}

\* C5: a producer that has reported None has no entry in the heap and has
\* not been polled since.
C5_NoPollAfterNone ==
    \A id \in DOMAIN streams :
        streams[id].ended => (id \notin HeapIds /\ streams[id].repolls = 0)

\* a producer reported None, and later calls returned two items of other
\* producers and then End
C5_Witness ==
    /\ Ended
    /\ Len(out) >= 3
    /\ \E id \in DOMAIN streams :
          /\ streams[id].ended
          /\ Len(streams[id].items) = 1
          /\ out[1].id = id
          /\ \A i \in 2..Len(out) : out[i].id # id

----------------------------------------------------------------------------
(* C7: what follows End *)

\* C7 as stated: once poll_next has returned End, no item is returned
\* afterwards, whatever is done to the engine.
C7_EndIsTerminal == first_end # None => Len(out) = first_end[1]

NoAttachAfterEnd == \A id \in DOMAIN attached : ~attached[id].after_end

\* C7 as amended: once poll_next has returned End, and as long as no
\* producer is attached after that, the heap stays empty, every further call
\* returns End and no item is returned.
C7_EndIsTerminalWithoutAttach ==
    (first_end # None /\ NoAttachAfterEnd)
        => /\ Len(out) = first_end[1]
           /\ heap = <<>>
           /\ last.ret[1] = "End"

\* End was returned again by a call that had nothing to poll, after two
\* producers had been drained
C7_Witness ==
    /\ first_end # None /\ NoAttachAfterEnd
    /\ curr_id >= 2
    /\ Len(out) >= 2
    /\ last.ret[1] = "End"
    /\ last.polled = <<>>

----------------------------------------------------------------------------
(* C10: NotReady answers do not change the output *)

\* the heap after the producers 1..k were attached to an empty engine
RECURSIVE HeapOfFirst(_, _)
HeapOfFirst(c, k) == IF k = 0 THEN <<>> ELSE merge_heap(c, HeapOfFirst(c, k - 1), k)

\* the items poll_next returns up to End when no producer ever answers NotReady
RECURSIVE ReadyRun(_, _, _, _)
ReadyRun(c, h, ss, acc) ==
    LET r == poll_next(c, h, ss, Len(h) + 1, None, <<>>) IN
    IF r.ret[1] # "Item"
    THEN acc
    ELSE ReadyRun(c, r.heap, r.streams, Append(acc, [v |-> r.ret[2], id |-> r.ret[3]]))

\* that run for the producers attached, taken from their start
ReadyOut ==
    ReadyRun(cmp, HeapOfFirst(cmp, curr_id),
             [id \in DOMAIN streams |-> Stream_new(streams[id].items)], <<>>)

IsPrefix(s, t) == Len(s) <= Len(t) /\ SubSeq(t, 1, Len(s)) = s

\* C10: when every producer was attached before the first poll_next, then
\* whatever calls were answered NotReady, the items returned so far (with
\* their producers) are the first items of the run in which every producer
\* is always ready, and all of them once End was returned.
C10_PendingTransparent ==
    (AllAttachedBeforeStart /\ last # NoCall)
        => /\ IsPrefix(out, ReadyOut)
           /\ Ended => out = ReadyOut

\* a call was answered NotReady by the producer of the item returned last,
\* after two items had been returned and with items of three producers
\* still to come
C10_Witness ==
    /\ AllAttachedBeforeStart
    /\ last.ret[1] = "Pending"
    /\ Len(out) >= 2
    /\ last.polled = <<out[Len(out)].id>>
    /\ Len(out) < Len(ReadyOut)
    /\ Len(heap) = 3

----------------------------------------------------------------------------
(* C6: the coalesce producer is not polled after its None *)

\* C6: once the producer of the coalesce engine has reported None, it is
\* not polled again.
C6_CoNoPollAfterNone == co_inner.ended => co_inner.repolls = 0

----------------------------------------------------------------------------
(* C8: the output of coalesce *)

\* the greedy left fold, acc being the pending item
RECURSIVE Fold(_, _, _, _)
Fold(f, acc, rest, emitted) ==
    IF rest = <<>>
    THEN Append(emitted, acc)
    ELSE LET res == call_f(f, acc, Head(rest)) IN
         IF res[1] = "Ok"
         THEN Fold(f, res[2], Tail(rest), emitted)
         ELSE Fold(f, res[3], Tail(rest), Append(emitted, res[2]))

GreedyFold(f, items) == IF items = <<>> THEN <<>> ELSE Fold(f, Head(items), Tail(items), <<>>)

\* the fusion of a whole run of items, None when f rejects inside the run
RECURSIVE Fuse(_, _, _)
Fuse(f, acc, rest) ==
    IF rest = <<>>
    THEN Some(acc)
    ELSE LET res == call_f(f, acc, Head(rest)) IN
         IF res[1] = "Ok" THEN Fuse(f, res[2], Tail(rest)) ELSE None

\* o lists, in producer order, the fusions of adjacent runs that make up items
RECURSIVE InProducerOrder(_, _, _)
InProducerOrder(f, items, o) ==
    IF o = <<>>
    THEN items = <<>>
    ELSE \E k \in 1..Len(items) :
            /\ Fuse(f, items[1], SubSeq(items, 2, k)) = Some(o[1])
            /\ InProducerOrder(f, SubSeq(items, k + 1, Len(items)), Tail(o))

\* the values coalesce can hold: the items and their sums
CoValues == (0 - CoMaxLen * CoMaxItem)..(CoMaxLen * CoMaxItem)

\* f hands back the pair it rejects as it got it
RejectsUnchanged(f) ==
    \A p, c \in CoValues : call_f(f, p, c)[1] = "Err" => call_f(f, p, c) = <<"Err", p, c>>

\* C8 as stated: for every combine function, the items returned up to the
\* first End are the greedy left fold of the producer's items and appear in
\* producer order.
C8_FoldInProducerOrder ==
    co_hist.at_end # None
        => /\ co_hist.at_end[1] = GreedyFold(co_f, co_inner.items)
           /\ InProducerOrder(co_f, co_inner.items, co_hist.at_end[1])

\* C8 as amended: for every combine function and every pattern of NotReady
\* answers, the items returned so far are the first items of the greedy left
\* fold of the producer's items, and all of them at the first End; they
\* appear in producer order when the function hands back unchanged the pair
\* it rejects.
C8_Fold ==
    /\ co_hist.at_end = None => IsPrefix(co_out, GreedyFold(co_f, co_inner.items))
    /\ co_hist.at_end # None
        => /\ co_hist.at_end[1] = GreedyFold(co_f, co_inner.items)
           /\ RejectsUnchanged(co_f)
                 => InProducerOrder(co_f, co_inner.items, co_hist.at_end[1])

\* End after two items, the first the fusion of two producer items, under
\* the same-sign sum
C8_Witness ==
    /\ co_hist.at_end # None
    /\ co_f = "same_sign"
    /\ Len(co_inner.items) = 3
    /\ Len(co_out) = 2
    /\ co_out[1] = co_inner.items[1] + co_inner.items[2]
    /\ co_out[1] # 0

----------------------------------------------------------------------------
(* C9: the item pending at the producer's None *)

\* C9: when an item was pending as the producer first reported None, then
\* from that call on finished is set, prev is empty, the items returned are
\* those returned before followed once by that item, the producer is not
\* polled again, and each later call returns End without a poll.
C9_FinalPending ==
    (co_hist.at_none # None /\ co_hist.at_none[1].prev # None)
        => /\ co_finished
           /\ co_prev = None
           /\ co_out = Append(co_hist.at_none[1].out, co_hist.at_none[1].prev[1])
           /\ co_inner.repolls = 0
           /\ co_last.ret[1] \in {"Item", "End"}
           /\ co_last.ret[1] = "End" => co_last.polls = 0

\* the pending item was the sum of two producer items, it was returned after
\* another item, and a later call returned End
C9_Witness ==
    /\ co_hist.at_none # None
    /\ co_hist.at_none[1].prev # None
    /\ co_last.ret[1] = "End"
    /\ Len(co_out) = 2
    /\ Len(co_inner.items) = 3
    /\ co_out[2] = co_inner.items[2] + co_inner.items[3]
    /\ co_out[2] # co_inner.items[3]

----------------------------------------------------------------------------
(* C11: what a call that returns NotReady leaves of the merge engine *)

\* the entries of the priority structure, without their positions
Entries(h) == {h[i] : i \in DOMAIN h}

\* C11 as stated: a call of poll_next that returns NotReady leaves the engine
\* as it was when the call began: the same entries with the same cells, the
\* same producer counter, no item taken from any producer.
C11_PendingLeavesCallState ==
    [][(attached' = attached /\ last'.ret[1] = "Pending")
        => /\ Entries(heap') = Entries(heap)
           /\ curr_id' = curr_id
           /\ \A id \in DOMAIN streams : streams'[id].pos = streams[id].pos]_vars

\* C11: a call of poll_next that returns NotReady returns no item, keeps the
\* producer counter, and leaves the heap as it was just before the poll that
\* was answered NotReady; the producer of that poll and every producer not
\* polled in the call are as they were when the call began, and when that
\* poll is the first of the call the whole engine is as it was.
C11_PendingLeavesPollState ==
    [][(attached' = attached /\ last'.ret[1] = "Pending")
        => /\ curr_id' = curr_id
           /\ out' = out
           /\ heap' = last'.seen
           /\ LET k == Len(last'.polled) IN
              /\ k >= 1
              /\ \A id \in DOMAIN streams :
                    id \notin {last'.polled[i] : i \in 1..(k - 1)}
                        => streams'[id] = streams[id]
              /\ k = 1 => heap' = heap /\ streams' = streams]_vars

\* a call that polled one producer of several, after items were returned,
\* and was answered NotReady
C11_Witness ==
    /\ last.ret[1] = "Pending"
    /\ Len(last.polled) = 1
    /\ Len(out) >= 1
    /\ Len(heap) >= 2
    /\ \E i \in DOMAIN heap : has_peeked(heap[i].peeked)

----------------------------------------------------------------------------
(* C12: a producer that is not ready and the pending item of coalesce *)

\* the pending item followed by the items the producer handed out in a step
CoRun == (IF co_prev = None THEN <<>> ELSE <<co_prev[1]>>)
             \o SubSeq(co_inner.items, co_inner.pos + 1, co_inner'.pos)

\* C12: when the producer answers NotReady, poll_next returns NotReady and
\* that poll changes nothing: nothing is emitted, finished keeps its value,
\* and the pending item is the one held just before the poll, that is the
\* pending item of the start of the call fused with the items answered
\* earlier in the call (the very same item when the poll is the first of
\* the call); this.f is called for those earlier items only.
C12_PendingKeepsPrev ==
    [][co_last'.ret[1] = "Pending"
        => /\ co_out' = co_out
           /\ co_finished' = co_finished
           /\ co_last'.polls = 1 => co_prev' = co_prev /\ co_inner' = co_inner
           /\ ~co_inner.ended
                => /\ ~co_inner'.ended
                   /\ co_inner'.pos = co_inner.pos + co_last'.polls - 1
                   /\ co_prev' = IF CoRun = <<>> THEN None
                                 ELSE Fuse(co_f, Head(CoRun), Tail(CoRun))
                   /\ Len(co_last'.fcalls) = IF CoRun = <<>> THEN 0 ELSE Len(CoRun) - 1]_vars

\* a call whose first poll was answered NotReady while an item was pending,
\* after an item had been returned
C12_Witness ==
    /\ co_last.ret[1] = "Pending"
    /\ co_last.polls = 1
    /\ co_prev # None
    /\ co_out # <<>>
    /\ ~co_inner.ended

----------------------------------------------------------------------------
(* C13: NotReady is returned only when a producer answered NotReady *)

\* C13: for the merge engine and for the coalesce engine alike, a call of
\* poll_next returns NotReady exactly when a producer answered NotReady in
\* that call, and that answer is the one of the last poll of the call: the
\* call returns at once, without polling another producer.
C13_PendingByDelegation ==
    /\ (last.ret[1] = "Pending") <=> (last.notready # <<>>)
    /\ last.notready # <<>> => last.notready = <<Len(last.polled)>>
    /\ (co_last.ret[1] = "Pending") <=> (co_last.notready # <<>>)
    /\ co_last.notready # <<>> => co_last.notready = <<co_last.polls>>

\* a call of the merge engine that polled two producers: the first answered,
\* the second answered NotReady
C13_Witness ==
    /\ last.ret[1] = "Pending"
    /\ Len(last.polled) = 2
    /\ last.notready = <<2>>

----------------------------------------------------------------------------
(* C14: the merge engine with no producer and with one producer *)

\* C14: a call of poll_next on a merge engine with no producer attached
\* returns End without polling anything; a merge engine with exactly one
\* producer attached returns that producer's items, in the producer's order,
\* nothing added and nothing dropped, whatever the comparator and whether
\* the producer is sorted or not.
C14_DegenerateArities ==
    /\ (last # NoCall /\ last.attached = 0)
          => last.ret = <<"End">> /\ last.polled = <<>> /\ out = <<>>
    /\ curr_id = 1
          => /\ \A i \in DOMAIN out : out[i].id = 1
             /\ IsPrefix(OutVals, streams[1].items)
             /\ Ended => OutVals = streams[1].items

\* the engine has returned the two items of its only producer, which is not
\* sorted under the comparator, and then End
C14_Witness ==
    /\ curr_id = 1
    /\ Ended
    /\ Len(out) = 2
    /\ ~SortedBy(cmp, streams[1].items)
    /\ OutVals = streams[1].items

----------------------------------------------------------------------------
(* C15: coalesce over an empty producer and over a single item *)

\* C15: over an empty producer the coalesce engine returns no item and
\* calls this.f for nothing, and the call that receives the producer's None
\* returns End; over a producer with exactly one item it returns that item
\* unchanged, then End, and never calls this.f.  (An empty producer hands
\* out no item, before or after its None.)
C15_DegenerateInputs ==
    /\ (co_inner.items = <<>> /\ ~co_hist.revived)
          => /\ co_out = <<>>
             /\ co_hist.combines = 0
             /\ co_last.ret[1] \in {"None", "Pending", "End"}
             /\ co_inner.ended <=> co_hist.at_end = Some(<<>>)
    /\ Len(co_inner.items) = 1
          => /\ co_hist.combines = 0
             /\ IsPrefix(co_out, co_inner.items)
             /\ co_inner.ended <=> co_out = co_inner.items
             /\ co_hist.at_end # None => co_hist.at_end = Some(co_inner.items)
             /\ co_last.ret[1] = "End" => co_out = co_inner.items /\ co_finished

\* the engine has returned the only item of its producer and then End
C15_Witness ==
    /\ Len(co_inner.items) = 1
    /\ co_last.ret[1] = "End"
    /\ co_out = co_inner.items
    /\ co_hist.at_end = Some(co_inner.items)
    /\ co_hist.combines = 0

\* the engine over an empty producer has returned End
C15_WitnessEmpty ==
    /\ co_inner.items = <<>>
    /\ ~co_hist.revived
    /\ co_inner.repolls > 0
    /\ co_last.ret[1] = "End"

----------------------------------------------------------------------------
(* C16: the order of the items that compare Equal *)

\* the positions in the output of the items of producer id
OutOf(id) == {i \in DOMAIN out : out[i].id = id}

\* the items of producer id in the order in which they were returned
RECURSIVE OutSeqOf(_, _)
OutSeqOf(id, k) ==
    IF k = 0 THEN <<>>
    ELSE IF out[k].id = id THEN Append(OutSeqOf(id, k - 1), out[k].v)
    ELSE OutSeqOf(id, k - 1)

\* C16 as stated: for sorted producers, all attached before the first call,
\* and a comparator that is a total preorder, two returned items that compare
\* Equal are returned in the order in which their producers were attached,
\* and the items of one producer in that producer's order.
C16_StableMerge ==
    (AllAttachedBeforeStart /\ AllSorted /\ IsTotalPreorder(cmp))
        => /\ \A i, j \in DOMAIN out :
                 (i < j /\ compare(cmp, out[i].v, out[j].v) = "Equal")
                     => out[i].id <= out[j].id
           /\ \A id \in DOMAIN streams :
                 IsPrefix(OutSeqOf(id, Len(out)), streams[id].items)


\* C16: for sorted producers, all attached before the first call, and a
\* comparator that is a total preorder, the items returned are in the order
\* of the comparator and the items of one producer in that producer's order
\* (all of them once End is returned); which of two Equal items of different
\* producers comes first is not fixed by the order of attachment.
C16_SortedInProducerOrder ==
    (AllAttachedBeforeStart /\ AllSorted /\ IsTotalPreorder(cmp))
        => /\ SortedBy(cmp, OutVals)
           /\ \A id \in DOMAIN streams :
                 /\ IsPrefix(OutSeqOf(id, Len(out)), streams[id].items)
                 /\ Ended => OutSeqOf(id, Len(out)) = streams[id].items

\* a drained run over sorted producers in which an item of a producer
\* attached later was returned before an Equal item of an earlier one
C16_Witness ==
    /\ AllAttachedBeforeStart
    /\ AllSorted
    /\ IsTotalPreorder(cmp)
    /\ Ended
    /\ \E i, j \in DOMAIN out :
          /\ i < j
          /\ compare(cmp, out[i].v, out[j].v) = "Equal"
          /\ out[i].id > out[j].id

----------------------------------------------------------------------------
(* C17: merge by a predicate *)

\* no item of s is followed by one that the closure first puts before it
SortedByFirst(first, s) ==
    \A i, j \in DOMAIN s : i < j => ~call_first(first, s[j], s[i])

\* C17: for KMerge::by(first), when every producer was attached before the
\* first call and is sorted according to first, the items returned are
\* sorted according to first: no returned item follows one that first puts
\* after it.  FnCmp, which wraps first, answers Equal for no pair of items.
C17_MergeByPredicate ==
    /\ \A a, b \in Items : FnCmp_compare("lt", a, b) # "Equal"
    /\ (/\ cmp = "FnLt"
        /\ AllAttachedBeforeStart
        /\ \A id \in DOMAIN streams : SortedByFirst("lt", streams[id].items))
          => SortedByFirst("lt", OutVals)

\* a drained run of KMerge::by(first) over three sorted producers that hold
\* both items that first orders and items that it does not
C17_Witness ==
    /\ cmp = "FnLt"
    /\ AllAttachedBeforeStart
    /\ \A id \in DOMAIN streams : SortedByFirst("lt", streams[id].items)
    /\ Ended
    /\ curr_id = 3
    /\ Len(out) >= 4
    /\ \E i, j \in DOMAIN out : out[i].v = out[j].v /\ out[i].id # out[j].id
    /\ \E i, j \in DOMAIN out : call_first("lt", out[i].v, out[j].v)

----------------------------------------------------------------------------
(* C18: producers that are not sorted *)

\* C18: whatever the producers hold, sorted under the comparator or not,
\* and whenever they were attached, the items of each producer are returned
\* in that producer's own order, each once, and when End is returned every
\* item of every producer has been returned and the heap is empty.
C18_UnsortedKeepsItems ==
    /\ \A id \in DOMAIN streams :
          /\ IsPrefix(OutSeqOf(id, Len(out)), streams[id].items)
          /\ Ended => OutSeqOf(id, Len(out)) = streams[id].items
    /\ Ended => heap = <<>>

\* a drained run over three producers of two items each, none of them
\* sorted under the comparator
C18_Witness ==
    /\ Ended
    /\ curr_id = 3
    /\ Len(out) = 6
    /\ \A id \in DOMAIN streams : ~SortedBy(cmp, streams[id].items)
    /\ ~SortedBy(cmp, OutVals)

----------------------------------------------------------------------------
(* C19: one item of lookahead per producer *)

\* the lookahead cell of producer id in heap h; None when id has no entry
CellOf(h, id) ==
    IF \E i \in DOMAIN h : h[i].id = id
    THEN Some((CHOOSE e \in Entries(h) : e.id = id).peeked)
    ELSE None

\* the item that producer id handed out last, in streams ss
LastPulled(ss, id) == ss[id].items[ss[id].pos]

\* the items pulled from producer id that have not been returned
Held(id) == streams[id].pos - Cardinality(OutOf(id))

\* in every state a producer has at most one entry, and the number of its
\* items pulled and not yet returned is 1 when its cell holds an item (the
\* one pulled last) and 0 otherwise
C19_Cells ==
    \A id \in DOMAIN streams :
        /\ Cardinality({i \in DOMAIN heap : heap[i].id = id}) <= 1
        /\ Held(id) \in {0, 1}
        /\ IF CellOf(heap, id) \in {None, Some(No)}
           THEN Held(id) = 0
           ELSE /\ Held(id) = 1
                /\ CellOf(heap, id) = Some(Yes(LastPulled(streams, id)))

\* a call of poll_next polls a producer at most once, and only a producer
\* whose cell was empty; a cell changes by a fill with the item its
\* producer answers, or by the take of the item that the call returns
C19_Step ==
    attached' = attached
        => /\ \A i, j \in DOMAIN last'.polled :
                 last'.polled[i] = last'.polled[j] => i = j
           /\ \A i \in DOMAIN last'.polled : CellOf(heap, last'.polled[i]) = Some(No)
           /\ \A id \in DOMAIN streams :
                 LET polled == \E i \in DOMAIN last'.polled : last'.polled[i] = id
                     taken == last'.ret[1] = "Item" /\ last'.ret[3] = id
                     filled == streams'[id].pos = streams[id].pos + 1
                 IN /\ streams'[id].pos # streams[id].pos => polled /\ filled
                    /\ CellOf(heap', id) # CellOf(heap, id) => polled \/ taken
                    /\ taken => /\ CellOf(heap', id) = Some(No)
                                /\ last'.ret[2] = LastPulled(streams', id)
                    /\ (filled /\ ~taken)
                          => CellOf(heap', id) = Some(Yes(LastPulled(streams', id)))

\* C19: for every producer the number of items pulled minus the number of
\* items returned is 0 or 1 in every reachable state; a lookahead cell
\* changes only by a fill (empty to holding, with the item its producer
\* answers) and by a take (holding to empty, the item being returned); a
\* producer is polled only while its own cell is empty.
C19_OneItemLookahead == []C19_Cells /\ [][C19_Step]_vars

\* a call has filled the cell emptied by the call before and returned an
\* item of another producer: two cells hold an item, the third is empty
C19_Witness ==
    /\ curr_id = 3
    /\ Len(out) >= 2
    /\ last.ret[1] = "Item"
    /\ last.polled = <<out[Len(out) - 1].id>>
    /\ last.ret[3] # out[Len(out) - 1].id
    /\ Held(last.ret[3]) = 0
    /\ \A id \in DOMAIN streams : id # last.ret[3] => Held(id) = 1

----------------------------------------------------------------------------
(* C20: what coalesce does with the answer of this.f *)

\* the answer of this.f to its i-th call of the last poll_next
CoAnswer(i) == call_f(co_f, co_last.fcalls[i][1], co_last.fcalls[i][2])

\* C20: in every call of poll_next, when this.f(p, c) answers Err((a, b))
\* the call returns a and the pending item becomes b, whatever a and b are;
\* when it answers Ok(x) the call returns nothing at that step and x
\* becomes the pending item: x is what the next call of this.f gets as p,
\* or what is pending when the call returns NotReady, or what is returned
\* when the producer ends.
C20_RejectionPair ==
    \A i \in DOMAIN co_last.fcalls :
        IF i < Len(co_last.fcalls)
        THEN /\ CoAnswer(i)[1] = "Ok"
             /\ co_last.fcalls[i + 1][1] = CoAnswer(i)[2]
        ELSE IF CoAnswer(i)[1] = "Err"
        THEN /\ co_last.ret = <<"Item", CoAnswer(i)[2]>>
             /\ co_prev = Some(CoAnswer(i)[3])
        ELSE \/ co_last.ret = <<"Pending">> /\ co_prev = Some(CoAnswer(i)[2])
             \/ co_last.ret = <<"Item", CoAnswer(i)[2]>> /\ co_prev = None /\ co_inner.ended

\* a call in which this.f rejected with the pair swapped: the item returned
\* is the second argument, the pending item the first
C20_Witness ==
    /\ co_f = "swap"
    /\ co_last.fcalls # <<>>
    /\ co_last.fcalls[1][1] # co_last.fcalls[1][2]
    /\ co_last.ret = <<"Item", co_last.fcalls[1][2]>>
    /\ co_prev = Some(co_last.fcalls[1][1])

\* a call in which this.f answered Ok twice and the producer was then not
\* ready: nothing returned, the fusion pending
C20_WitnessOk ==
    /\ Len(co_last.fcalls) = 2
    /\ co_last.ret = <<"Pending">>
    /\ co_prev = Some(CoAnswer(2)[2])

----------------------------------------------------------------------------
(* C21: the order of the heap entries *)

\* the entry of producer id with cell p
EntryOf(p, id) == [peeked |-> p, id |-> id]

\* C21: for the comparator of the engine, whichever it is, every pair of
\* attached producers and all items a, b, HeapEntryCmp ranks an empty cell
\* Greater than a full one, a full one Less than an empty one, two empty
\* cells Equal, and two full cells as the comparator ranks their items:
\* Descending as a.cmp(b), Ascending as b.cmp(a).  The identifiers take no
\* part: exchanging them between two entries of the heap leaves their rank
\* as it is.
C21_EntryOrdering ==
    /\ \A i, j \in DOMAIN streams, a, b \in Items :
          /\ HeapEntryCmp_compare(cmp, EntryOf(No, i), EntryOf(Yes(a), j)) = "Greater"
          /\ HeapEntryCmp_compare(cmp, EntryOf(Yes(a), i), EntryOf(No, j)) = "Less"
          /\ HeapEntryCmp_compare(cmp, EntryOf(No, i), EntryOf(No, j)) = "Equal"
          /\ HeapEntryCmp_compare(cmp, EntryOf(Yes(a), i), EntryOf(Yes(b), j))
                = CASE cmp = "Descending"
                         -> IF a < b THEN "Less" ELSE IF a > b THEN "Greater" ELSE "Equal"
                    [] cmp = "Ascending"
                         -> IF b < a THEN "Less" ELSE IF b > a THEN "Greater" ELSE "Equal"
                    [] OTHER -> compare(cmp, a, b)
    /\ \A i, j \in DOMAIN heap :
          HeapEntryCmp_compare(cmp, heap[i], heap[j])
              = HeapEntryCmp_compare(cmp, EntryOf(heap[i].peeked, heap[j].id),
                                          EntryOf(heap[j].peeked, heap[i].id))

\* a heap with an empty cell at the root above two full cells that hold
\* different items: the three kinds of pairs are all there
C21_Witness ==
    /\ Len(heap) = 3
    /\ heap[1].peeked = No
    /\ has_peeked(heap[2].peeked)
    /\ has_peeked(heap[3].peeked)
    /\ heap[2].peeked # heap[3].peeked
    /\ HeapEntryCmp_compare(cmp, heap[1], heap[2]) = "Greater"
    /\ HeapEntryCmp_compare(cmp, heap[2], heap[3]) = compare(cmp, heap[2].peeked[1], heap[3].peeked[1])

----------------------------------------------------------------------------
(* C22: the entry whose item was returned is the one polled next *)

\* the last call returned an item and no producer has been attached since
ReturnedNoAttach == Returned /\ last.attached = curr_id

\* after the return of an item of producer P, P's entry is at the root of
\* the heap with an empty cell, and every other cell holds an item
C22_EmptyAtTop ==
    ReturnedNoAttach
        => /\ heap # <<>>
           /\ heap[1] = EntryOf(No, last.ret[3])
           /\ \A i \in 2..Len(heap) : has_peeked(heap[i].peeked)

\* the call that follows polls P first; when P is not ready the heap stays
\* as it is, otherwise P's entry is filled with P's next item or removed at
\* P's None, and an item is returned only after that
C22_PolledNext ==
    (ReturnedNoAttach /\ attached' = attached)
        => /\ last'.polled # <<>>
           /\ last'.polled[1] = last.ret[3]
           /\ IF last'.notready = <<1>>
              THEN heap' = heap
              ELSE \/ /\ streams'[last.ret[3]].ended
                      /\ CellOf(heap', last.ret[3]) = None
                   \/ /\ ~streams'[last.ret[3]].ended
                      /\ streams'[last.ret[3]].pos = streams[last.ret[3]].pos + 1
                      /\ \/ CellOf(heap', last.ret[3]) = Some(Yes(LastPulled(streams', last.ret[3])))
                         \/ last'.ret = <<"Item", LastPulled(streams', last.ret[3]), last.ret[3]>>

\* C22: after poll_next has returned an item of producer P, and as long as
\* no producer is attached, P's entry is the only one with an empty cell and
\* it is at the root of the heap; the next call polls P first, and P's entry
\* is re-ranked (or removed at P's None) in that call, before any further
\* item is returned.
C22_RefillOrder == []C22_EmptyAtTop /\ [][C22_PolledNext]_vars

\* two calls in a row returned an item, the second after polling the
\* producer of the first; three entries, the root empty
C22_Witness ==
    /\ AllAttachedBeforeStart
    /\ ReturnedNoAttach
    /\ Len(out) >= 2
    /\ last.polled = <<out[Len(out) - 1].id>>
    /\ last.notready = <<>>
    /\ Len(heap) = 3
    /\ heap[1] = EntryOf(No, last.ret[3])

----------------------------------------------------------------------------
(* C23: termination of the merge *)

\* the number of items that the attached producers hold
RECURSIVE TotalItems(_)
TotalItems(k) == IF k = 0 THEN 0 ELSE TotalItems(k - 1) + Len(streams[k].items)

\* End was returned, nothing was attached since, every item was returned
C23_Drained ==
    /\ Ended
    /\ heap = <<>>
    /\ Len(out) = TotalItems(curr_id)

\* never more items returned than the producers hold, and all of them when
\* End is returned
C23_Count ==
    /\ Len(out) <= TotalItems(curr_id)
    /\ Ended => Len(out) = TotalItems(curr_id)

\* a call polls at most one producer per entry of the heap, plus one
C23_PollBound == attached' = attached => Len(last'.polled) <= Len(heap) + 1

\* C23: when the producers are finite, none of them answers NotReady for
\* ever, and poll_next is called again and again, then once the last
\* producer is attached the calls come to return End, and keep returning
\* it; before End exactly as many items are returned as the producers hold
\* in total; and every call returns after at most one poll per entry of the
\* heap plus one.
C23_Termination == <>[]C23_Drained /\ []C23_Count /\ [][C23_PollBound]_vars

\* the engine has returned every item of its producers, each of them full,
\* the last one attached after the calls had begun, and then End
C23_Witness ==
    /\ C23_Drained
    /\ curr_id = FairMaxStreams
    /\ Len(out) = FairMaxStreams * MaxLen
    /\ attached[curr_id].started
    /\ last.polled # <<>>

====
